---- MODULE Spec2Model ----
(***************************************************************************)
(* Event distribution core of the crypto trading dashboard (src/main.go): *)
(* the client registry (clients, clientsMu), the counters (statsMu), the  *)
(* non-blocking broadcast, the four periodic producers started by         *)
(* simulateMarket and the per-connection handler handleSSE.               *)
(*                                                                         *)
(* Every goroutine is a thread with a program counter.  A step is one     *)
(* critical section, one channel operation or one write to the response   *)
(* stream; the range loop of broadcast is one step per channel, with the  *)
(* read lock held in between.  Channels are buffered FIFO queues.         *)
(* handleSSE makes its channel with capacity 10 (main.go:301); the model  *)
(* scales that capacity down to ChanCap so that full queues are reached.  *)
(* sync.RWMutex is modelled without writer preference, which only adds    *)
(* behaviours.  SpecLocks and SpecRace take every lock operation as a     *)
(* step of its own, SpecLocksFair adds the scheduler's fairness, and      *)
(* SpecMarket follows the market state cryptos entry by entry.            *)
(* SpecTicks, SpecSnap and SpecTrade follow updatePrices and              *)
(* generateTrade field by field with the numbers of the seeds: prices in  *)
(* dollars, Change24h in hundredths of a percent, Volume in millions,     *)
(* trade amounts in units of 0.00001 and trade totals in cents.           *)
(* Definitions named after a fault (CanSendOneLess,                       *)
(* DeregisterMissing, ...) are faulty variants of the definition that     *)
(* follows them; no specification uses them.                              *)
(***************************************************************************)
EXTENDS Integers, Sequences, FiniteSets, TLC

\* ---------------------------------------------------------------- bounds
ChanCap == 2        \* capacity of a client channel (scaled down from 10)
MaxPublish == 3     \* producer ticks during a run, all producers together

\* --------------------------------------------------------------- threads
Conns == {"c1", "c2"}                           \* handleSSE goroutines
Prod == {"price", "trade", "alert", "stats"}    \* simulateMarket goroutines
Caller == {"caller"}                            \* a direct caller of removeClient
Threads == Conns \cup Prod \cup Caller
Chans == Conns                                  \* connection c makes channel c
NoThread == "none"
TradeTotals == {1, 2}                           \* values of trade.Total
symbols == <<"BTC", "ETH">>                     \* update order of updatePrices
Symbols == {symbols[i] : i \in 1..Len(symbols)}

VARIABLES
    pc,             \* thread -> position in its code
    clients,        \* the registry: set of registered channels
    clientsMu,      \* [w: writer or NoThread, r: set of readers]
    chq,            \* channel -> buffered messages, oldest first
    chclosed,       \* channel -> close(ch) was executed
    statsMu,        \* [w, r] as clientsMu
    totalTrades, totalVolume, activeTraders,
    ticks,          \* producer -> ticks started
    cur,            \* producer -> message being built / broadcast
    todo,           \* producer -> channels its range loop has not visited yet
    ctxDone,        \* connection -> r.Context().Done() is closed
    stream,         \* connection -> messages written to the response
    arg,            \* the channel the direct caller passes
    hist,           \* channel -> enqueue attempts, in order (history): the
                    \*   message, the queue length found, whether the queue
                    \*   changed
    earlyEnq,       \* channels that got a message before their handler
                    \*   reached its loop (history)
    lateTick,       \* channels whose removeClient had returned when a
                    \*   producer tick began (history)
    unregCalls,     \* channel -> removeClient calls started (history)
    unregDone,      \* channel -> removeClient calls returned (history)
    tradeLog,       \* trade.Total of the trades added to totalVolume, in
                    \*   order (history)
    bcasts,         \* producer -> broadcast calls begun (history)
    cryptos,        \* symbol -> the Crypto entry: Price in dollars,
                    \*   Change24h in hundredths of a percent, Volume in
                    \*   millions, High24h, Low24h; n counts the updates
                    \*   applied to the entry (history)
    upd,            \* index in symbols of the next symbol updatePrices updates
    list            \* thread -> the result of its getCryptoList call so far

hubVars == <<clients, clientsMu, chq, chclosed>>
statVars == <<statsMu, totalTrades, totalVolume, activeTraders>>
prodVars == <<ticks, cur, todo>>
connVars == <<ctxDone, stream, arg>>
histVars == <<hist, earlyEnq, lateTick, unregCalls, unregDone, tradeLog, bcasts>>
marketVars == <<cryptos, upd, list>>
vars == <<pc, hubVars, statVars, prodVars, connVars, histVars, marketVars>>

\* -------------------------------------------------------------- messages
NoMsg == [kind |-> "none", n |-> 0, data |-> <<>>]
InitMsg == [kind |-> "init", n |-> 0, data |-> <<>>]
KindOf(p) == IF p = "price" THEN "prices" ELSE p
BroadcastKinds == {"prices", "trade", "alert", "stats"}

\* ----------------------------------------------------------- sync.RWMutex
Unlocked == [w |-> NoThread, r |-> {}]
CanLockIgnoringReaders(mu) == mu.w = NoThread
CanLock(mu) == mu.w = NoThread /\ mu.r = {}
CanRLockIgnoringWriter(mu) == TRUE
CanRLock(mu) == mu.w = NoThread
LockMissing(mu, t) == mu
Lock(mu, t) == [mu EXCEPT !.w = t]
UnlockMissing(mu, t) == mu
Unlock(mu, t) == [mu EXCEPT !.w = NoThread]
RLock(mu, t) == [mu EXCEPT !.r = @ \cup {t}]
RUnlock(mu, t) == [mu EXCEPT !.r = @ \ {t}]

\* ------------------------------------------------------ buffered channel
\* select { case ch <- msg: default: }: the send succeeds iff the buffer has
\* a free slot; otherwise the default branch runs and nothing changes.
CanSendOneLess(q) == Len(q) + 1 < ChanCap
CanSendOneMore(q) == Len(q) <= ChanCap
CanSend(q) == Len(q) < ChanCap
TrySendDropOldest(q, msg) == IF CanSend(q) THEN Append(q, msg) ELSE Append(Tail(q), msg)
TrySendPrepend(q, msg) == IF CanSend(q) THEN <<msg>> \o q ELSE q
TrySend(q, msg) == IF CanSend(q) THEN Append(q, msg) ELSE q

\* the channel a thread's addClient / removeClient call works on
ChOf(t) == IF t \in Conns THEN t ELSE arg

\* the initial entries of cryptos for the symbols modelled
Seed ==
    [s \in Symbols |->
        IF s = "BTC"
          THEN [Price |-> 43250, Change24h |-> 250, Volume |-> 28500,
                High24h |-> 44100, Low24h |-> 42800, n |-> 0]
          ELSE [Price |-> 2280, Change24h |-> -120, Volume |-> 15200,
                High24h |-> 2350, Low24h |-> 2250, n |-> 0]]

\* the state after `alerts` alert ticks that found nobody connected, with
\* the market as given
InitFrom(market, alerts) ==
    /\ pc = [t \in Threads |-> "idle"]
    /\ clients = {}
    /\ clientsMu = Unlocked
    /\ chq = [c \in Chans |-> <<>>]
    /\ chclosed = [c \in Chans |-> FALSE]
    /\ statsMu = Unlocked
    /\ totalTrades = 0 /\ totalVolume = 0 /\ activeTraders = 0
    /\ ticks = [p \in Prod |-> IF p = "alert" THEN alerts ELSE 0]
    /\ cur = [p \in Prod |-> NoMsg]
    /\ todo = [p \in Prod |-> {}]
    /\ ctxDone = [c \in Conns |-> FALSE]
    /\ stream = [c \in Conns |-> <<>>]
    /\ arg = "c1"
    /\ hist = [c \in Chans |-> <<>>]
    /\ earlyEnq = {} /\ lateTick = {}
    /\ unregCalls = [c \in Chans |-> 0]
    /\ unregDone = [c \in Chans |-> 0]
    /\ tradeLog = <<>>
    /\ bcasts = [p \in Prod |-> IF p = "alert" THEN alerts ELSE 0]
    /\ cryptos = market
    /\ upd = 1
    /\ list = [t \in Threads |-> <<>>]

Init == InitFrom(Seed, 0)

\* entries as they are after many price ticks: Change24h has drifted, up to
\* the limits it is clamped to
ChangeLimit == 2000                             \* 20 percent
LateChanges == {-ChangeLimit, 250, ChangeLimit - 10}
LateMarkets ==
    {[s \in Symbols |-> [Seed[s] EXCEPT !.Change24h = x]] : x \in LateChanges}

InitLate == \E market \in LateMarkets : InitFrom(market, 0)

\* all ticks of the run but one have been alert ticks
InitLastTick == InitFrom(Seed, MaxPublish - 1)

\* ------------------------------------------------------------- addClient
\* A critical section that touches only what its lock protects is one step:
\* Lock, body and Unlock happen together once the lock can be taken.
Register(reg, ch) == reg \cup {ch}

\* clientsMu.Lock(); clients[ch] = true; clientsMu.Unlock()
AddClientRegistry(t) ==
    /\ pc[t] = "add_reg"
    /\ CanLock(clientsMu)
    /\ clients' = Register(clients, ChOf(t))
    /\ pc' = [pc EXCEPT ![t] = "add_stats"]
    /\ UNCHANGED <<clientsMu, chq, chclosed, statVars, prodVars, connVars, histVars>>
    /\ UNCHANGED marketVars

IncActive(n) == n + 1      \* activeTraders++

\* statsMu.Lock(); activeTraders++; statsMu.Unlock()
AddClientStats(t) ==
    /\ pc[t] = "add_stats"
    /\ CanLock(statsMu)
    /\ activeTraders' = IncActive(activeTraders)
    /\ pc' = [pc EXCEPT ![t] = "add_log"]
    /\ UNCHANGED <<hubVars, statsMu, totalTrades, totalVolume,
                   prodVars, connVars, histVars>>
    /\ UNCHANGED marketVars

\* log.Printf(..., len(clients)) and return to handleSSE
AddClientLog(t) ==
    /\ pc[t] = "add_log"
    /\ pc' = [pc EXCEPT ![t] = "init"]
    /\ UNCHANGED <<hubVars, statVars, prodVars, connVars, histVars>>
    /\ UNCHANGED marketVars

\* ---------------------------------------------------------- removeClient
DeregisterMissing(reg, ch) == reg
Deregister(reg, ch) == reg \ {ch}

\* clientsMu.Lock(); delete(clients, ch); close(ch); clientsMu.Unlock().
\* close of a closed channel panics: the goroutine unwinds with the map
\* entry deleted and the lock still held (the Unlock is not deferred).
RemoveClientRegistry(t) ==
    /\ pc[t] = "rem_reg"
    /\ CanLock(clientsMu)
    /\ clients' = Deregister(clients, ChOf(t))
    /\ IF chclosed[ChOf(t)]
         THEN /\ pc' = [pc EXCEPT ![t] = "panic"]
              /\ clientsMu' = Lock(clientsMu, t)
              /\ UNCHANGED chclosed
         ELSE /\ chclosed' = [chclosed EXCEPT ![ChOf(t)] = TRUE]
              /\ pc' = [pc EXCEPT ![t] = "rem_stats"]
              /\ UNCHANGED clientsMu
    /\ UNCHANGED <<chq, statVars, prodVars, connVars, histVars>>
    /\ UNCHANGED marketVars

DecActiveMissing(n) == n
DecActive(n) == n - 1      \* activeTraders--

\* statsMu.Lock(); activeTraders--; statsMu.Unlock()
RemoveClientStats(t) ==
    /\ pc[t] = "rem_stats"
    /\ CanLock(statsMu)
    /\ activeTraders' = DecActive(activeTraders)
    /\ pc' = [pc EXCEPT ![t] = "rem_log"]
    /\ UNCHANGED <<hubVars, statsMu, totalTrades, totalVolume,
                   prodVars, connVars, histVars>>
    /\ UNCHANGED marketVars

\* log.Printf(..., len(clients)) and return
RemoveClientLog(t) ==
    /\ pc[t] = "rem_log"
    /\ pc' = [pc EXCEPT ![t] = "done"]
    /\ unregDone' = [unregDone EXCEPT ![ChOf(t)] = @ + 1]
    /\ UNCHANGED <<hubVars, statVars, prodVars, connVars, hist, earlyEnq,
                   lateTick, unregCalls, tradeLog, bcasts>>
    /\ UNCHANGED marketVars

\* ------------------------------------------------------------- broadcast
\* the channels `for ch := range clients` visits
RangeAllChans(reg) == Chans
RangeClients(reg) == reg

\* clientsMu.RLock(); defer clientsMu.RUnlock(); the range loop starts.
\* With an empty registry the loop body never runs and broadcast returns.
BcastRLock(p) ==
    /\ pc[p] = "rlock"
    /\ CanRLock(clientsMu)
    /\ IF clients = {}
         THEN /\ pc' = [pc EXCEPT ![p] = "idle"]
              /\ cur' = [cur EXCEPT ![p] = NoMsg]
              /\ UNCHANGED <<clientsMu, todo>>
         ELSE /\ pc' = [pc EXCEPT ![p] = "send"]
              /\ clientsMu' = RLock(clientsMu, p)
              /\ todo' = [todo EXCEPT ![p] = RangeClients(clients)]
              /\ UNCHANGED cur
    /\ bcasts' = [bcasts EXCEPT ![p] = @ + 1]
    /\ UNCHANGED <<clients, chq, chclosed, statVars, ticks, connVars,
                   hist, earlyEnq, lateTick, unregCalls, unregDone, tradeLog>>
    /\ UNCHANGED marketVars

\* one iteration of `for ch := range clients`, in any order.  A send on a
\* closed channel panics.  After the last iteration, and when unwinding a
\* panic, the deferred RUnlock runs.
BcastSend(p, ch) ==
    /\ pc[p] = "send"
    /\ ch \in todo[p]
    /\ IF chclosed[ch]
         THEN /\ pc' = [pc EXCEPT ![p] = "panic"]
              /\ clientsMu' = RUnlock(clientsMu, p)
              /\ todo' = [todo EXCEPT ![p] = {}]
              /\ UNCHANGED <<chq, hist, earlyEnq, cur>>
         ELSE /\ chq' = [chq EXCEPT ![ch] = TrySend(@, cur[p])]
              /\ hist' = [hist EXCEPT ![ch] =
                            Append(@, [msg |-> cur[p], len |-> Len(chq[ch]),
                                       ok |-> chq'[ch] # chq[ch]])]
              /\ earlyEnq' = IF pc[ch] \in {"add_stats", "add_log", "init"}
                                  /\ chq'[ch] # chq[ch]
                               THEN earlyEnq \cup {ch} ELSE earlyEnq
              /\ todo' = [todo EXCEPT ![p] = @ \ {ch}]
              /\ IF todo[p] = {ch}
                   THEN /\ pc' = [pc EXCEPT ![p] = "idle"]
                        /\ clientsMu' = RUnlock(clientsMu, p)
                        /\ cur' = [cur EXCEPT ![p] = NoMsg]
                   ELSE UNCHANGED <<pc, clientsMu, cur>>
    /\ UNCHANGED <<clients, chclosed, statVars, ticks, connVars,
                   lateTick, unregCalls, unregDone, tradeLog, bcasts>>
    /\ UNCHANGED marketVars

\* -------------------------------------------------------------- producers
Published == ticks["price"] + ticks["trade"] + ticks["alert"] + ticks["stats"]

\* a ticker fires and updatePrices / generateTrade / generateAlert /
\* broadcastStats runs up to its first lock operation
Tick(p) ==
    /\ pc[p] = "idle"
    /\ Published < MaxPublish
    /\ ticks' = [ticks EXCEPT ![p] = @ + 1]
    /\ cur' = [cur EXCEPT ![p] = [kind |-> KindOf(p), n |-> ticks'[p], data |-> <<>>]]
    /\ pc' = [pc EXCEPT ![p] = CASE p = "trade" -> "tr_stats"
                                 [] p = "stats" -> "st_read"
                                 [] OTHER -> "rlock"]
    /\ lateTick' = lateTick \cup {c \in Chans : unregDone[c] > 0}
    /\ UNCHANGED <<hubVars, statVars, todo, connVars, hist, earlyEnq,
                   unregCalls, unregDone, tradeLog, bcasts>>
    /\ UNCHANGED marketVars

\* generateTrade: statsMu.Lock(); totalTrades++; totalVolume += trade.Total;
\* statsMu.Unlock()
TradeStats(p) ==
    /\ p = "trade" /\ pc[p] = "tr_stats"
    /\ CanLock(statsMu)
    /\ \E total \in TradeTotals :
         /\ totalTrades' = totalTrades + 1
         /\ totalVolume' = totalVolume + total
         /\ cur' = [cur EXCEPT ![p].data = <<total>>]
         /\ tradeLog' = Append(tradeLog, total)
    /\ pc' = [pc EXCEPT ![p] = "rlock"]
    /\ UNCHANGED <<hubVars, statsMu, activeTraders, ticks, todo, connVars,
                   hist, earlyEnq, lateTick, unregCalls, unregDone, bcasts>>
    /\ UNCHANGED marketVars

\* broadcastStats: statsMu.RLock(); read the three counters; statsMu.RUnlock()
StatsRead(p) ==
    /\ p = "stats" /\ pc[p] = "st_read"
    /\ CanRLock(statsMu)
    /\ cur' = [cur EXCEPT ![p].data = <<totalTrades, totalVolume, activeTraders>>]
    /\ pc' = [pc EXCEPT ![p] = "rlock"]
    /\ UNCHANGED <<hubVars, statVars, ticks, todo, connVars, histVars>>
    /\ UNCHANGED marketVars

\* -------------------------------------------------------------- handleSSE
\* a request arrives: clientChan := make(chan SSEMessage, 10); addClient(...)
Accept(c) ==
    /\ pc[c] = "idle"
    /\ pc' = [pc EXCEPT ![c] = "add_reg"]
    /\ UNCHANGED <<hubVars, statVars, prodVars, connVars, histVars>>
    /\ UNCHANGED marketVars

\* the peer goes away: the request context is cancelled.  handleSSE looks at
\* the context only in the select of its loop, so a cancellation that comes
\* earlier is seen there and is modelled as coming there.
Disconnect(c) ==
    /\ pc[c] = "loop"
    /\ ~ctxDone[c]
    /\ ctxDone' = [ctxDone EXCEPT ![c] = TRUE]
    /\ UNCHANGED <<pc, hubVars, statVars, prodVars, stream, arg, histVars>>
    /\ UNCHANGED marketVars

\* A float64 price that has grown past the largest finite value is +Inf,
\* here a number above every price of the model.
PosInf == 2^30

\* json.Marshal(msg) returns an error for a payload with a float that is
\* not finite; the payloads with prices are the lists of Crypto entries of
\* the init and the prices events.
MarshalErr(msg) == msg.kind \in {"init", "prices"} /\ \E s \in DOMAIN msg.data : msg.data[s].Price = PosInf

\* sendSSE: data, err := json.Marshal(msg); if err != nil { return };
\* otherwise the marshalled message is written to the response
SendSSEDrop(w, msg) == w
SendSSETwice(w, msg) == Append(Append(w, msg), msg)
SendSSEIgnoreErr(w, msg) == Append(w, msg)
SendSSE(w, msg) == IF MarshalErr(msg) THEN w ELSE Append(w, msg)

\* initialData := SSEMessage{Event: "init", ...}
InitialDataAsPrices == [InitMsg EXCEPT !.kind = "prices"]
InitialData == InitMsg

\* sendSSE(w, initialData); Flush
SendInit(c) ==
    /\ pc[c] = "init"
    /\ stream' = [stream EXCEPT ![c] = SendSSE(@, InitialData)]
    /\ pc' = [pc EXCEPT ![c] = "loop"]
    /\ UNCHANGED <<hubVars, statVars, prodVars, ctxDone, arg, histVars>>
    /\ UNCHANGED marketVars

\* case msg := <-clientChan: sendSSE(w, msg); Flush
Recv(c) ==
    /\ pc[c] = "loop"
    /\ chq[c] # <<>>
    /\ chq' = [chq EXCEPT ![c] = Tail(@)]
    /\ stream' = [stream EXCEPT ![c] = SendSSE(@, Head(chq[c]))]
    /\ UNCHANGED <<pc, clients, clientsMu, chclosed, statVars, prodVars,
                   ctxDone, arg, histVars>>
    /\ UNCHANGED marketVars

\* the select case <-r.Context().Done() is ready once the context is done
DoneReadyNever(done) == FALSE
DoneReadyAlways(done) == TRUE
DoneReady(done) == done

\* case <-r.Context().Done(): return, which runs the deferred removeClient
CtxReturn(c) ==
    /\ pc[c] = "loop"
    /\ DoneReady(ctxDone[c])
    /\ pc' = [pc EXCEPT ![c] = "rem_reg"]
    /\ unregCalls' = [unregCalls EXCEPT ![c] = @ + 1]
    /\ UNCHANGED <<hubVars, statVars, prodVars, connVars, hist, earlyEnq,
                   lateTick, unregDone, tradeLog, bcasts>>
    /\ UNCHANGED marketVars

\* ------------------------------------------------------ the whole program
ConnStep(c) ==
    \/ Accept(c) \/ AddClientRegistry(c) \/ AddClientStats(c) \/ AddClientLog(c)
    \/ SendInit(c) \/ Recv(c) \/ CtxReturn(c)
    \/ RemoveClientRegistry(c) \/ RemoveClientStats(c) \/ RemoveClientLog(c)

\* broadcast(msg)
Broadcast(p) == BcastRLock(p) \/ (\E ch \in Chans : BcastSend(p, ch))

ProdStep(p) == Tick(p) \/ TradeStats(p) \/ StatsRead(p) \/ Broadcast(p)

\* a second removeClient(ch) for a channel whose removeClient has returned
CallRemoveClient(t, ch) ==
    /\ pc[t] = "idle"
    /\ unregDone[ch] > 0
    /\ arg' = ch
    /\ pc' = [pc EXCEPT ![t] = "rem_reg"]
    /\ unregCalls' = [unregCalls EXCEPT ![ch] = @ + 1]
    /\ UNCHANGED <<hubVars, statVars, prodVars, ctxDone, stream, hist, earlyEnq,
                   lateTick, unregDone, tradeLog, bcasts>>
    /\ UNCHANGED marketVars

CallerStep(t) ==
    \/ \E ch \in Chans : CallRemoveClient(t, ch)
    \/ RemoveClientRegistry(t) \/ RemoveClientStats(t) \/ RemoveClientLog(t)

Next ==
    \/ \E c \in Conns : ConnStep(c)
    \/ \E c \in Conns : Disconnect(c)
    \/ \E p \in Prod : ProdStep(p)

Spec == Init /\ [][Next]_vars

\* The state space of Spec is too large to enumerate with a full queue in
\* reach, so the properties are checked on two windows of the program:
\* one connection with all four producers, and two connections while only
\* the price and the alert ticker fire.
NextOne ==
    \/ ConnStep("c1")
    \/ Disconnect("c1")
    \/ \E p \in Prod : ProdStep(p)

SpecOne == Init /\ [][NextOne]_vars

NextPair ==
    \/ \E c \in Conns : ConnStep(c)
    \/ \E c \in Conns : Disconnect(c)
    \/ \E p \in {"price", "alert"} : Tick(p) \/ Broadcast(p)

SpecPair == Init /\ [][NextPair]_vars

\* SpecOne plus a caller that unregisters a channel a second time
NextApi ==
    \/ NextOne
    \/ \E t \in Caller : CallerStep(t)

SpecApi == Init /\ [][NextApi]_vars

\* ---------------------------------------- lock operations step by step
\* The actions above take Lock, body and Unlock of a critical section as
\* one step.  The actions below take every lock operation and every access
\* to the protected data as a step of its own, so that a thread is seen
\* while it holds a lock.

\* addClient: clientsMu.Lock()
AddClientLock(t) ==
    /\ pc[t] = "add_reg"
    /\ CanLock(clientsMu)
    /\ clientsMu' = Lock(clientsMu, t)
    /\ pc' = [pc EXCEPT ![t] = "add_ins"]
    /\ UNCHANGED <<clients, chq, chclosed, statVars, prodVars, connVars, histVars>>
    /\ UNCHANGED marketVars

\* clients[ch] = true; clientsMu.Unlock()
AddClientInsert(t) ==
    /\ pc[t] = "add_ins"
    /\ clients' = Register(clients, ChOf(t))
    /\ clientsMu' = Unlock(clientsMu, t)
    /\ pc' = [pc EXCEPT ![t] = "add_stats"]
    /\ UNCHANGED <<chq, chclosed, statVars, prodVars, connVars, histVars>>
    /\ UNCHANGED marketVars

\* statsMu.Lock()
AddClientStatsLock(t) ==
    /\ pc[t] = "add_stats"
    /\ CanLock(statsMu)
    /\ statsMu' = Lock(statsMu, t)
    /\ pc' = [pc EXCEPT ![t] = "add_inc"]
    /\ UNCHANGED <<hubVars, totalTrades, totalVolume, activeTraders,
                   prodVars, connVars, histVars>>
    /\ UNCHANGED marketVars

\* activeTraders++; statsMu.Unlock()
AddClientStatsInc(t) ==
    /\ pc[t] = "add_inc"
    /\ activeTraders' = IncActive(activeTraders)
    /\ statsMu' = Unlock(statsMu, t)
    /\ pc' = [pc EXCEPT ![t] = "add_log"]
    /\ UNCHANGED <<hubVars, totalTrades, totalVolume, prodVars, connVars, histVars>>
    /\ UNCHANGED marketVars

\* removeClient: clientsMu.Lock()
RemoveClientLock(t) ==
    /\ pc[t] = "rem_reg"
    /\ CanLock(clientsMu)
    /\ clientsMu' = Lock(clientsMu, t)
    /\ pc' = [pc EXCEPT ![t] = "rem_del"]
    /\ UNCHANGED <<clients, chq, chclosed, statVars, prodVars, connVars, histVars>>
    /\ UNCHANGED marketVars

\* delete(clients, ch)
RemoveClientDelete(t) ==
    /\ pc[t] = "rem_del"
    /\ clients' = Deregister(clients, ChOf(t))
    /\ pc' = [pc EXCEPT ![t] = "rem_close"]
    /\ UNCHANGED <<clientsMu, chq, chclosed, statVars, prodVars, connVars, histVars>>
    /\ UNCHANGED marketVars

\* close(ch); clientsMu.Unlock().  close of a closed channel panics with
\* the lock held.
RemoveClientClose(t) ==
    /\ pc[t] = "rem_close"
    /\ IF chclosed[ChOf(t)]
         THEN /\ pc' = [pc EXCEPT ![t] = "panic"]
              /\ UNCHANGED <<chclosed, clientsMu>>
         ELSE /\ chclosed' = [chclosed EXCEPT ![ChOf(t)] = TRUE]
              /\ clientsMu' = Unlock(clientsMu, t)
              /\ pc' = [pc EXCEPT ![t] = "rem_stats"]
    /\ UNCHANGED <<clients, chq, statVars, prodVars, connVars, histVars>>
    /\ UNCHANGED marketVars

\* statsMu.Lock()
RemoveClientStatsLock(t) ==
    /\ pc[t] = "rem_stats"
    /\ CanLock(statsMu)
    /\ statsMu' = Lock(statsMu, t)
    /\ pc' = [pc EXCEPT ![t] = "rem_dec"]
    /\ UNCHANGED <<hubVars, totalTrades, totalVolume, activeTraders,
                   prodVars, connVars, histVars>>
    /\ UNCHANGED marketVars

\* activeTraders--; statsMu.Unlock()
RemoveClientStatsDec(t) ==
    /\ pc[t] = "rem_dec"
    /\ activeTraders' = DecActive(activeTraders)
    /\ statsMu' = Unlock(statsMu, t)
    /\ pc' = [pc EXCEPT ![t] = "rem_log"]
    /\ UNCHANGED <<hubVars, totalTrades, totalVolume, prodVars, connVars, histVars>>
    /\ UNCHANGED marketVars

\* generateTrade: statsMu.Lock()
TradeLock(p) ==
    /\ p = "trade" /\ pc[p] = "tr_stats"
    /\ CanLock(statsMu)
    /\ statsMu' = Lock(statsMu, p)
    /\ pc' = [pc EXCEPT ![p] = "tr_inc"]
    /\ UNCHANGED <<hubVars, totalTrades, totalVolume, activeTraders,
                   prodVars, connVars, histVars>>
    /\ UNCHANGED marketVars

\* totalTrades++
TradeInc(p) ==
    /\ p = "trade" /\ pc[p] = "tr_inc"
    /\ totalTrades' = totalTrades + 1
    /\ pc' = [pc EXCEPT ![p] = "tr_vol"]
    /\ UNCHANGED <<hubVars, statsMu, totalVolume, activeTraders,
                   prodVars, connVars, histVars>>
    /\ UNCHANGED marketVars

\* totalVolume += trade.Total; statsMu.Unlock()
TradeVol(p) ==
    /\ p = "trade" /\ pc[p] = "tr_vol"
    /\ \E total \in TradeTotals :
         /\ totalVolume' = totalVolume + total
         /\ cur' = [cur EXCEPT ![p].data = <<total>>]
         /\ tradeLog' = Append(tradeLog, total)
    /\ statsMu' = Unlock(statsMu, p)
    /\ pc' = [pc EXCEPT ![p] = "rlock"]
    /\ UNCHANGED <<hubVars, totalTrades, activeTraders, ticks, todo, connVars,
                   hist, earlyEnq, lateTick, unregCalls, unregDone, bcasts>>
    /\ UNCHANGED marketVars

\* broadcastStats: statsMu.RLock()
StatsRLock(p) ==
    /\ p = "stats" /\ pc[p] = "st_read"
    /\ CanRLock(statsMu)
    /\ statsMu' = RLock(statsMu, p)
    /\ pc' = [pc EXCEPT ![p] = "st_trades"]
    /\ UNCHANGED <<hubVars, totalTrades, totalVolume, activeTraders,
                   prodVars, connVars, histVars>>
    /\ UNCHANGED marketVars

\* TotalTrades: totalTrades
StatsTrades(p) ==
    /\ p = "stats" /\ pc[p] = "st_trades"
    /\ cur' = [cur EXCEPT ![p].data = <<totalTrades>>]
    /\ pc' = [pc EXCEPT ![p] = "st_vol"]
    /\ UNCHANGED <<hubVars, statVars, ticks, todo, connVars, histVars>>
    /\ UNCHANGED marketVars

\* TotalVolume: ..., ActiveTraders: activeTraders; statsMu.RUnlock()
StatsVolume(p) ==
    /\ p = "stats" /\ pc[p] = "st_vol"
    /\ cur' = [cur EXCEPT ![p].data = <<cur[p].data[1], totalVolume, activeTraders>>]
    /\ statsMu' = RUnlock(statsMu, p)
    /\ pc' = [pc EXCEPT ![p] = "rlock"]
    /\ UNCHANGED <<hubVars, totalTrades, totalVolume, activeTraders,
                   ticks, todo, connVars, histVars>>
    /\ UNCHANGED marketVars

ConnStepLocks(c) ==
    \/ Accept(c)
    \/ AddClientLock(c) \/ AddClientInsert(c)
    \/ AddClientStatsLock(c) \/ AddClientStatsInc(c) \/ AddClientLog(c)
    \/ SendInit(c) \/ Recv(c) \/ CtxReturn(c)
    \/ RemoveClientLock(c) \/ RemoveClientDelete(c) \/ RemoveClientClose(c)
    \/ RemoveClientStatsLock(c) \/ RemoveClientStatsDec(c) \/ RemoveClientLog(c)

ProdStepLocks(p) ==
    \/ Tick(p)
    \/ TradeLock(p) \/ TradeInc(p) \/ TradeVol(p)
    \/ StatsRLock(p) \/ StatsTrades(p) \/ StatsVolume(p)
    \/ Broadcast(p)

\* one connection and the four producers, lock by lock
NextLocks ==
    \/ ConnStepLocks("c1")
    \/ Disconnect("c1")
    \/ \E p \in Prod : ProdStepLocks(p)

SpecLocks == Init /\ [][NextLocks]_vars

\* Scheduling: the Go scheduler runs every runnable goroutine, a ticker
\* keeps firing, a goroutine blocked in Lock or RLock gets the mutex once
\* it is free, and a select with several ready cases takes each of them
\* with equal probability, so the Done case is not passed over for ever.
\* A request arrives and a peer disconnects whenever they like.
HandlerRun(c) ==
    \/ AddClientLock(c) \/ AddClientInsert(c)
    \/ AddClientStatsLock(c) \/ AddClientStatsInc(c) \/ AddClientLog(c)
    \/ SendInit(c) \/ Recv(c)
    \/ RemoveClientLock(c) \/ RemoveClientDelete(c) \/ RemoveClientClose(c)
    \/ RemoveClientStatsLock(c) \/ RemoveClientStatsDec(c) \/ RemoveClientLog(c)

SpecLocksFair ==
    /\ SpecLocks
    /\ \A p \in Prod : WF_vars(ProdStepLocks(p))
    /\ WF_vars(HandlerRun("c1"))
    /\ WF_vars(CtxReturn("c1"))

\* two connections and the alert ticker, lock by lock
NextRace ==
    \/ \E c \in Conns : ConnStepLocks(c)
    \/ \E c \in Conns : Disconnect(c)
    \/ Tick("alert") \/ Broadcast("alert")

SpecRace == Init /\ [][NextRace]_vars

\* -------------------------------------------------------------- market state
\* The windows above do not look at the payload of an init or a prices
\* event and take updatePrices up to its broadcast call as part of Tick.
\* The actions below follow the map cryptos: updatePrices updates it symbol
\* by symbol and getCryptoList reads it symbol by symbol, in the order of
\* the map iteration, which is any order.  No lock is taken for either.
\* UpdateSymbol takes one iteration of updatePrices as one step and looks
\* only at n, the number of updates applied to the entry.

\* the price ticker fires: updatePrices starts its loop over symbols
TickUpdatePrices(p) ==
    /\ p = "price" /\ pc[p] = "idle"
    /\ Published < MaxPublish
    /\ ticks' = [ticks EXCEPT ![p] = @ + 1]
    /\ cur' = [cur EXCEPT ![p] = [kind |-> KindOf(p), n |-> ticks'[p], data |-> <<>>]]
    /\ upd' = 1
    /\ pc' = [pc EXCEPT ![p] = "upd"]
    /\ lateTick' = lateTick \cup {c \in Chans : unregDone[c] > 0}
    /\ UNCHANGED <<hubVars, statVars, todo, connVars, hist, earlyEnq,
                   unregCalls, unregDone, tradeLog, bcasts, cryptos, list>>

\* one iteration of `for _, symbol := range symbols`: the entry of the
\* symbol gets its new price, change, high, low and volume
UpdateSymbol(p) ==
    /\ p = "price" /\ pc[p] = "upd"
    /\ cryptos' = [cryptos EXCEPT ![symbols[upd]].n = @ + 1]
    /\ upd' = upd + 1
    /\ pc' = [pc EXCEPT ![p] = IF upd = Len(symbols) THEN "list" ELSE "upd"]
    /\ UNCHANGED <<hubVars, statVars, prodVars, connVars, histVars, list>>

\* getCryptoList: result = append(result, *c) for one more entry of cryptos
AppendCrypto(result, s) ==
    [x \in DOMAIN result \cup {s} |-> IF x = s THEN cryptos[s] ELSE result[x]]

\* one iteration of the range loop of getCryptoList, called by updatePrices
ListSymbol(p, s) ==
    /\ p = "price" /\ pc[p] = "list"
    /\ s \in Symbols \ DOMAIN list[p]
    /\ IF DOMAIN list[p] \cup {s} = Symbols
         THEN /\ cur' = [cur EXCEPT ![p].data = AppendCrypto(list[p], s)]
              /\ list' = [list EXCEPT ![p] = <<>>]
              /\ pc' = [pc EXCEPT ![p] = "rlock"]
         ELSE /\ list' = [list EXCEPT ![p] = AppendCrypto(@, s)]
              /\ UNCHANGED <<cur, pc>>
    /\ UNCHANGED <<hubVars, statVars, ticks, todo, connVars, histVars, cryptos, upd>>

\* one iteration of the range loop of getCryptoList, called by handleSSE
InitListSymbol(c, s) ==
    /\ pc[c] = "init"
    /\ s \in Symbols \ DOMAIN list[c]
    /\ list' = [list EXCEPT ![c] = AppendCrypto(@, s)]
    /\ UNCHANGED <<pc, hubVars, statVars, prodVars, connVars, histVars, cryptos, upd>>

\* initialData := SSEMessage{Event: "init", Data: {"cryptos": getCryptoList(), ...}};
\* sendSSE(w, initialData); Flush
SendInitList(c) ==
    /\ pc[c] = "init"
    /\ DOMAIN list[c] = Symbols
    /\ stream' = [stream EXCEPT ![c] = SendSSE(@, [InitialData EXCEPT !.data = list[c]])]
    /\ list' = [list EXCEPT ![c] = <<>>]
    /\ pc' = [pc EXCEPT ![c] = "loop"]
    /\ UNCHANGED <<hubVars, statVars, prodVars, ctxDone, arg, histVars, cryptos, upd>>

\* ------------------------------------------------ updatePrices in numbers
\* One iteration of updatePrices field by field.  Prices are whole dollars
\* and a product is cut to a whole number, as a float is rounded; the
\* random draws are taken from small sets inside their ranges.
MaxPercent == 2
ChangePercents == {-MaxPercent, 1}      \* (rand.Float64() - 0.5) * 4
ChangeDeltas == {-25, 24}               \* (rand.Float64() - 0.5) * 0.5
VolumeSteps == {0, 9}                   \* rand.Float64() * 10000000

Quot(a, b) == IF a >= 0 THEN a \div b ELSE -((-a) \div b)

\* priceChange := crypto.Price * (changePercent / 100)
PriceChangeAbsolute(price, changePercent) == changePercent * 1000
PriceChange(price, changePercent) == Quot(price * changePercent, 100)

\* math.Max(-20, math.Min(20, crypto.Change24h))
ClampMissing(x) == x
Clamp(x) == IF x > ChangeLimit THEN ChangeLimit ELSE IF x < -ChangeLimit THEN -ChangeLimit ELSE x

\* if crypto.Price > crypto.High24h { crypto.High24h = crypto.Price }
NewHigh(price, high) == IF price > high THEN price ELSE high

\* if crypto.Price < crypto.Low24h { crypto.Low24h = crypto.Price }
NewLowMissing(price, low) == low
NewLow(price, low) == IF price < low THEN price ELSE low

\* crypto.Price += priceChange
UpdatePrice(p) ==
    /\ p = "price" /\ pc[p] = "upd"
    /\ \E changePercent \in ChangePercents :
         cryptos' = [cryptos EXCEPT ![symbols[upd]].Price =
                        @ + PriceChange(@, changePercent)]
    /\ pc' = [pc EXCEPT ![p] = "upd_chg"]
    /\ UNCHANGED <<hubVars, statVars, prodVars, connVars, histVars, upd, list>>

\* crypto.Change24h += (rand.Float64() - 0.5) * 0.5
UpdateChange(p) ==
    /\ p = "price" /\ pc[p] = "upd_chg"
    /\ \E d \in ChangeDeltas :
         cryptos' = [cryptos EXCEPT ![symbols[upd]].Change24h = @ + d]
    /\ pc' = [pc EXCEPT ![p] = "upd_clamp"]
    /\ UNCHANGED <<hubVars, statVars, prodVars, connVars, histVars, upd, list>>

\* crypto.Change24h = math.Max(-20, math.Min(20, crypto.Change24h))
ClampChange(p) ==
    /\ p = "price" /\ pc[p] = "upd_clamp"
    /\ cryptos' = [cryptos EXCEPT ![symbols[upd]].Change24h = Clamp(@)]
    /\ pc' = [pc EXCEPT ![p] = "upd_hl"]
    /\ UNCHANGED <<hubVars, statVars, prodVars, connVars, histVars, upd, list>>

\* the two ifs that update High24h and Low24h
UpdateHighLow(p) ==
    /\ p = "price" /\ pc[p] = "upd_hl"
    /\ cryptos' = [cryptos EXCEPT
                     ![symbols[upd]].High24h = NewHigh(cryptos[symbols[upd]].Price, @),
                     ![symbols[upd]].Low24h = NewLow(cryptos[symbols[upd]].Price, @)]
    /\ pc' = [pc EXCEPT ![p] = "upd_vol"]
    /\ UNCHANGED <<hubVars, statVars, prodVars, connVars, histVars, upd, list>>

\* crypto.Volume += rand.Float64() * 10000000, and on to the next symbol
UpdateVolume(p) ==
    /\ p = "price" /\ pc[p] = "upd_vol"
    /\ \E v \in VolumeSteps :
         cryptos' = [cryptos EXCEPT ![symbols[upd]].Volume = @ + v,
                                    ![symbols[upd]].n = @ + 1]
    /\ upd' = upd + 1
    /\ pc' = [pc EXCEPT ![p] = IF upd = Len(symbols) THEN "list" ELSE "upd"]
    /\ UNCHANGED <<hubVars, statVars, prodVars, connVars, histVars, list>>

\* updatePrices, field by field
UpdatePricesFields(p) ==
    \/ TickUpdatePrices(p)
    \/ UpdatePrice(p) \/ UpdateChange(p) \/ ClampChange(p)
    \/ UpdateHighLow(p) \/ UpdateVolume(p)
    \/ (\E s \in Symbols : ListSymbol(p, s))

\* the price ticker alone, from any market state of LateMarkets
NextTicks == UpdatePricesFields("price") \/ BcastRLock("price")

SpecTicks == InitLate /\ [][NextTicks]_vars

\* ------------------------------------------------ generateTrade in numbers
\* amount is in units of 0.00001, trade.Amount in units of 0.0001 and
\* trade.Total in cents.
Amounts == {1000, 1004}                 \* rand.Float64() * 10, or * 2

\* math.Round(x / d) for x >= 0
RoundDiv(x, d) == (2 * x + d) \div (2 * d)

\* the trade ticker fires: generateTrade picks symbol and amount and
\* evaluates the Trade literal up to Price: crypto.Price and Amount:
\* math.Round(amount*10000) / 10000
TickTrade(p) ==
    /\ p = "trade" /\ pc[p] = "idle"
    /\ Published < MaxPublish
    /\ ticks' = [ticks EXCEPT ![p] = @ + 1]
    /\ \E symbol \in Symbols, amount \in Amounts :
         cur' = [cur EXCEPT ![p] =
                   [kind |-> KindOf(p), n |-> ticks'[p],
                    data |-> [Symbol |-> symbol,
                              Price |-> cryptos[symbol].Price,
                              Amount |-> RoundDiv(amount, 10),
                              amount |-> amount]]]
    /\ pc' = [pc EXCEPT ![p] = "tr_total"]
    /\ lateTick' = lateTick \cup {c \in Chans : unregDone[c] > 0}
    /\ UNCHANGED <<hubVars, statVars, todo, connVars, hist, earlyEnq,
                   unregCalls, unregDone, tradeLog, bcasts, marketVars>>

\* Total: math.Round(crypto.Price*amount*100) / 100, with crypto.Price read
\* again
TradeTotal(p) ==
    /\ p = "trade" /\ pc[p] = "tr_total"
    /\ cur' = [cur EXCEPT ![p].data =
                 [Symbol |-> @.Symbol, Price |-> @.Price, Amount |-> @.Amount,
                  Total |-> RoundDiv(cryptos[@.Symbol].Price * @.amount, 1000)]]
    /\ pc' = [pc EXCEPT ![p] = "tr_stats"]
    /\ UNCHANGED <<hubVars, statVars, ticks, todo, connVars, histVars, marketVars>>

\* statsMu.Lock(); totalTrades++; totalVolume += trade.Total;
\* statsMu.Unlock()
TradeStatsTotal(p) ==
    /\ p = "trade" /\ pc[p] = "tr_stats"
    /\ CanLock(statsMu)
    /\ totalTrades' = totalTrades + 1
    /\ totalVolume' = totalVolume + cur[p].data.Total
    /\ tradeLog' = Append(tradeLog, cur[p].data.Total)
    /\ pc' = [pc EXCEPT ![p] = "rlock"]
    /\ UNCHANGED <<hubVars, statsMu, activeTraders, prodVars, connVars,
                   hist, earlyEnq, lateTick, unregCalls, unregDone, bcasts, marketVars>>

\* generateTrade up to its broadcast call
GenerateTrade(p) == TickTrade(p) \/ TradeTotal(p) \/ TradeStatsTotal(p)

ConnStepMarket(c) ==
    \/ Accept(c) \/ AddClientRegistry(c) \/ AddClientStats(c) \/ AddClientLog(c)
    \/ (\E s \in Symbols : InitListSymbol(c, s)) \/ SendInitList(c)
    \/ Recv(c) \/ CtxReturn(c)
    \/ RemoveClientRegistry(c) \/ RemoveClientStats(c) \/ RemoveClientLog(c)

\* updatePrices
UpdatePrices(p) ==
    \/ TickUpdatePrices(p) \/ UpdateSymbol(p)
    \/ (\E s \in Symbols : ListSymbol(p, s))
    \/ Broadcast(p)

\* one connection and the price ticker, with the market state
NextMarket ==
    \/ ConnStepMarket("c1")
    \/ Disconnect("c1")
    \/ UpdatePrices("price")

SpecMarket == Init /\ [][NextMarket]_vars

\* one connection and one price tick, field by field
NextSnap ==
    \/ ConnStepMarket("c1")
    \/ Disconnect("c1")
    \/ UpdatePricesFields("price") \/ Broadcast("price")

SpecSnap == InitLastTick /\ [][NextSnap]_vars

\* the price ticker field by field and the trade ticker, nobody connected
NextTrade ==
    \/ UpdatePricesFields("price")
    \/ GenerateTrade("trade")
    \/ \E p \in {"price", "trade"} : BcastRLock(p)

SpecTrade == Init /\ [][NextTrade]_vars

\* the market after the price of BTC has overflowed to +Inf
Overflowed == [Seed EXCEPT !["BTC"].Price = PosInf, !["BTC"].High24h = PosInf]
InitMarshal == \E market \in {Seed, Overflowed} : InitFrom(market, 1)

\* two connections, the price ticker and the alert ticker, with the market
\* state; json.Marshal fails for the snapshots of the overflowed market
NextMarshal ==
    \/ \E c \in Conns : ConnStepMarket(c)
    \/ \E c \in Conns : Disconnect(c)
    \/ UpdatePrices("price")
    \/ Tick("alert") \/ Broadcast("alert")

SpecMarshal == InitMarshal /\ [][NextMarshal]_vars

\* =================================================================
\* Properties
\* =================================================================
Min(a, b) == IF a < b THEN a ELSE b
Msgs(h) == [i \in 1..Len(h) |-> h[i].msg]
Accepted(e) == e.ok

\* the messages a publish tried to enqueue on ch, and those it enqueued
Attempts(ch) == Msgs(hist[ch])
Enqueued(ch) == Msgs(SelectSeq(hist[ch], Accepted))

\* what the handler of c wrote after its first message, and how many
\* messages it took from its channel
Written(c) == IF stream[c] = <<>> THEN <<>> ELSE Tail(stream[c])
Consumed(c) == Len(Written(c))

ThreadStep(t) ==
    IF t \in Prod THEN ProdStep(t)
    ELSE IF t \in Conns THEN ConnStep(t) ELSE CallerStep(t)

Holders(mu) == (IF mu.w = NoThread THEN {} ELSE {mu.w}) \cup mu.r
WaitsForClientsMu(t) == pc[t] \in {"add_reg", "rem_reg", "rlock"}
WaitsForStatsMu(t) == pc[t] \in {"add_stats", "rem_stats", "tr_stats", "st_read"}

\* C1: a full queue drops the incoming message for that sink only
\* (drop-newest): every enqueue attempt that found the queue full left it
\* unchanged, the pass went on, and a sink that nothing was taken from
\* holds exactly the first ChanCap messages offered to it, in offer order.
C1_DropNewest ==
    \A ch \in Chans :
        /\ \A i \in 1..Len(hist[ch]) :
               hist[ch][i].len >= ChanCap => ~hist[ch][i].ok
        /\ Consumed(ch) = 0 =>
               chq[ch] = SubSeq(Attempts(ch), 1, Min(Len(hist[ch]), ChanCap))
        /\ \A p \in Prod : pc[p] = "send" => ENABLED Broadcast(p)

C1_Witness ==
    \E ch \in Chans :
        /\ Len(hist[ch]) > ChanCap
        /\ Consumed(ch) = 0
        /\ \E other \in Chans \ {ch} : Len(hist[other]) = Len(hist[ch])

\* C2: whether a sink gets a message depends only on its own occupancy:
\* every attempt that found a free slot enqueued.  Of two sinks offered the
\* same ChanCap+1 messages, one always found empty and one never read, the
\* first got all of them and the second holds exactly ChanCap.
C2_OwnOccupancyOnly ==
    /\ \A ch \in Chans : \A i \in 1..Len(hist[ch]) :
           hist[ch][i].len < ChanCap => hist[ch][i].ok
    /\ \A s1, s2 \in Chans :
           ( /\ s1 # s2
             /\ Len(hist[s1]) = ChanCap + 1 /\ Len(hist[s2]) = ChanCap + 1
             /\ \A i \in 1..Len(hist[s1]) : hist[s1][i].len = 0
             /\ Consumed(s2) = 0 )
           => /\ Enqueued(s1) = Attempts(s1)
              /\ Len(chq[s2]) = ChanCap
              /\ Len(Enqueued(s2)) = ChanCap

C2_Witness ==
    \E s1, s2 \in Chans :
        /\ s1 # s2
        /\ Len(hist[s1]) = ChanCap + 1 /\ Len(hist[s2]) = ChanCap + 1
        /\ \A i \in 1..Len(hist[s1]) : hist[s1][i].len = 0
        /\ Consumed(s2) = 0
        /\ Consumed(s1) = ChanCap + 1
        /\ Len(chq[s2]) = ChanCap

\* C3: under every interleaving of addClient, removeClient and concurrent
\* broadcasts no thread panics, a running pass has offered its message to
\* every registered sink it has visited and each of those took it or was
\* full, and a thread that waits for a lock waits for a thread that can run.
C3_PassAttempted(p) ==
    /\ todo[p] \subseteq clients
    /\ \A ch \in clients \ todo[p] :
           \E i \in 1..Len(hist[ch]) :
               /\ hist[ch][i].msg = cur[p]
               /\ hist[ch][i].ok \/ hist[ch][i].len = ChanCap

C3_CanProceed(t) ==
    /\ WaitsForClientsMu(t) /\ ~ENABLED ThreadStep(t) =>
           /\ Holders(clientsMu) # {}
           /\ \A h \in Holders(clientsMu) : ENABLED ThreadStep(h)
    /\ WaitsForStatsMu(t) /\ ~ENABLED ThreadStep(t) =>
           /\ Holders(statsMu) # {}
           /\ \A h \in Holders(statsMu) : ENABLED ThreadStep(h)

C3_NoPanicNoDeadlock ==
    /\ \A t \in Threads : pc[t] # "panic"
    /\ \A p \in Prod : pc[p] = "send" => C3_PassAttempted(p)
    /\ \A ch \in clients : ~chclosed[ch]
    /\ \A t \in Threads : C3_CanProceed(t)

C3_Witness ==
    \E p \in Prod, c \in Conns :
        /\ pc[p] = "send"
        /\ pc[c] = "rem_reg"
        /\ c \in todo[p]
        /\ \E ch \in clients \ todo[p] : hist[ch][Len(hist[ch])].len = ChanCap

\* C4: once removeClient(S) has returned, no step enqueues on S, offers a
\* message to S or panics on S.
C4_NoEnqueueAfterUnregister ==
    [][\A ch \in Chans : unregDone[ch] > 0 =>
           /\ chq'[ch] = chq[ch]
           /\ hist'[ch] = hist[ch]
           /\ \A p \in Prod : pc'[p] = "panic" => pc[p] = "panic"]_vars

C4_Witness ==
    \E ch \in Chans :
        /\ ch \in lateTick
        /\ \A p \in Prod : pc[p] = "idle"
        /\ hist[ch] # <<>>

\* C5: per-sink FIFO: what a handler wrote after init, followed by what
\* its channel still holds, is the sequence of messages enqueued on the
\* channel, in enqueue order; messages of one producer are enqueued in the
\* order of its ticks.
C5_PerSinkFifo ==
    \A c \in Conns :
        /\ Written(c) \o chq[c] = Enqueued(c)
        /\ \A i, j \in 1..Len(Enqueued(c)) :
               (i < j /\ Enqueued(c)[i].kind = Enqueued(c)[j].kind)
                   => Enqueued(c)[i].n < Enqueued(c)[j].n

C5_Witness ==
    \E c \in Conns :
        /\ Len(Written(c)) >= 2
        /\ Written(c)[1].kind = Written(c)[2].kind
        /\ \E i \in 1..Len(hist[c]) : hist[c][i].len = 1 /\ hist[c][i].ok

\* C6: a channel never holds more than ChanCap messages, also while
\* several producers broadcast at once.
C6_CapacityBound == \A ch \in Chans : Len(chq[ch]) <= ChanCap

\* two passes are about to send to a channel with one free slot
C6_Witness ==
    \E ch \in Chans :
        /\ Len(chq[ch]) = ChanCap - 1
        /\ Cardinality({p \in Prod : pc[p] = "send" /\ ch \in todo[p]}) >= 2

\* C7: a removeClient call for an already unregistered channel is a no-op:
\* no step of that call panics or changes the registry or activeTraders.
C7_SecondUnregisterNoOp ==
    [][\A t \in Caller : pc'[t] # pc[t] =>
           /\ pc'[t] # "panic"
           /\ clients' = clients
           /\ activeTraders' = activeTraders]_vars

\* C8: removeClient is called at most once per channel, only after the
\* connection's context is done, and exactly once by the time the handler
\* has returned; a registered channel leaves the registry only by that call.
C8_OneUnregisterAfterClose ==
    \A c \in Conns :
        /\ unregCalls[c] <= 1
        /\ unregCalls[c] = 1 => ctxDone[c]
        /\ pc[c] = "done" => unregCalls[c] = 1
        /\ (pc[c] \in {"add_stats", "add_log", "init", "loop"}) => c \in clients
        /\ c \notin clients => (pc[c] \in {"idle", "add_reg"} \/ unregCalls[c] = 1)

C8_Witness ==
    \E c \in Conns :
        /\ pc[c] = "done"
        /\ Len(hist[c]) > ChanCap

C10_InCall(c) == pc[c] \in {"add_reg", "add_stats", "add_log",
                            "rem_reg", "rem_stats", "rem_log"}

C10_ActiveCounter ==
    /\ activeTraders >= 0
    /\ activeTraders = Cardinality({c \in Conns :
                           pc[c] \in {"add_log", "init", "loop", "rem_reg", "rem_stats"}})
    /\ (\A c \in Conns : ~C10_InCall(c)) => activeTraders = Cardinality(clients)

C10_Witness ==
    /\ \E c \in Conns : pc[c] = "done"
    /\ \E c \in Conns : pc[c] = "loop"
    /\ \A c \in Conns : ~C10_InCall(c)
    /\ activeTraders = 1

\* C11: no replay: a message enters a channel only by a broadcast pass
\* that runs while the channel is registered and open, and it is the
\* message of that pass; a handler writes, after its init message, only
\* the head of its channel.  So every broadcast event on a stream was
\* published between the registration and the unregistration of its sink.
C11_Registered(c) == c \in clients /\ ~chclosed[c]

C11_NoReplay ==
    [][\A c \in Conns :
           /\ hist'[c] # hist[c] => C11_Registered(c)
           /\ Len(chq'[c]) > Len(chq[c]) =>
                  /\ C11_Registered(c)
                  /\ \E p \in Prod :
                         /\ pc[p] = "send" /\ c \in todo[p]
                         /\ chq'[c] = Append(chq[c], cur[p])
           /\ (stream'[c] # stream[c] /\ stream[c] # <<>>) =>
                  /\ chq[c] # <<>>
                  /\ stream'[c] = Append(stream[c], Head(chq[c]))
                  /\ Head(chq[c]) \in {hist[c][i].msg : i \in 1..Len(hist[c])}]_vars

\* the first event on the stream is the second of its kind (the first was
\* published before the registration), and a tick came after the
\* unregistration that the stream does not show
C11_Witness ==
    \E c \in Conns :
        /\ c \in lateTick
        /\ \A p \in Prod : pc[p] = "idle"
        /\ Len(Written(c)) = 1
        /\ Written(c)[1].n = 2
        /\ Published = 3

\* the sum of the first n elements of a sequence of numbers
RECURSIVE SumFirst(_, _)
SumFirst(q, n) == IF n = 0 THEN 0 ELSE SumFirst(q, n - 1) + q[n]

\* the messages of a kind that exist: being broadcast, offered to a
\* channel, or written to a stream
EventsOf(kind) ==
    {m \in {cur[p] : p \in {q \in Prod : pc[q] \in {"rlock", "send"}}}
           \cup UNION {{hist[c][i].msg : i \in 1..Len(hist[c])} : c \in Chans}
           \cup UNION {{stream[c][i] : i \in 1..Len(stream[c])} : c \in Conns} :
        m.kind = kind}

\* C12: every stats event carries a consistent pair of counters: its
\* trade count n is the number of some prefix of the trades made, and its
\* volume is the sum of the totals of exactly those first n trades.
C12_ConsistentStats ==
    \A m \in EventsOf("stats") :
        /\ m.data[1] <= Len(tradeLog)
        /\ m.data[2] = SumFirst(tradeLog, m.data[1])

\* a stats event read between the first and the second trade was written
C12_Witness ==
    /\ Len(tradeLog) = 2
    /\ pc["trade"] = "idle"
    /\ \E i \in 1..Len(stream["c1"]) :
           /\ stream["c1"][i].kind = "stats"
           /\ stream["c1"][i].data[1] = 1

\* C14: no thread holds a shared lock across a publish or a suspension: a
\* producer that calls broadcast, or waits for its ticker, does not hold
\* statsMu (the code has no market-state lock); a handler in its select
\* holds no lock; no thread holds clientsMu and statsMu at the same time.
C14_NoLockAcrossPublish ==
    /\ \A p \in Prod :
           /\ pc[p] \in {"rlock", "send"} => p \notin Holders(statsMu)
           /\ pc[p] = "idle" => p \notin Holders(statsMu) \cup Holders(clientsMu)
    /\ \A c \in Conns :
           pc[c] = "loop" => c \notin Holders(statsMu) \cup Holders(clientsMu)
    /\ \A t \in Threads : ~(t \in Holders(clientsMu) /\ t \in Holders(statsMu))

\* the trade producer publishes after its counter update while the stats
\* producer holds statsMu and the handler waits in its select
C14_Witness ==
    /\ pc["trade"] = "send"
    /\ Len(tradeLog) = 1
    /\ Holders(statsMu) = {"stats"}
    /\ Holders(clientsMu) = {"trade"}
    /\ pc["c1"] = "loop"

\* C17: every registered channel is open; a channel is registered exactly
\* from the insert of its addClient to the delete of its removeClient; no
\* broadcast pass runs between that delete and the close, so a pass finds
\* every channel it has still to visit registered and open.
C17_RegisteredOpen ==
    /\ \A ch \in clients : ~chclosed[ch]
    /\ \A c \in Conns :
           c \in clients <=> pc[c] \in {"add_stats", "add_inc", "add_log", "init",
                                        "loop", "rem_reg", "rem_del"}
    /\ \A c \in Conns :
           pc[c] = "rem_close" =>
               /\ clientsMu = Lock(Unlocked, c)
               /\ ~chclosed[c]
               /\ \A p \in Prod : pc[p] # "send"
    /\ \A p \in Prod :
           pc[p] = "send" => \A ch \in todo[p] : ch \in clients /\ ~chclosed[ch]

\* a pass waits for the read lock while one channel is deleted and not yet
\* closed and the other is registered
C17_Witness ==
    \E c \in Conns, p \in Prod :
        /\ pc[c] = "rem_close"
        /\ pc[p] = "rlock"
        /\ clients = Conns \ {c}
        /\ hist[c] # <<>>

\* C18: a broadcast pass works on a stable view of the registry: the
\* channels it will visit are the registry at its start, no step changes
\* the registry or closes a channel while a pass runs, and at every step of
\* the pass each channel of the view has been offered the message exactly
\* once if the pass has visited it and not at all otherwise.
C18_StablePass ==
    [][/\ (\E p \in Prod : pc[p] = "send") =>
              clients' = clients /\ chclosed' = chclosed
       /\ \A p \in Prod :
              /\ (pc[p] = "rlock" /\ pc'[p] = "send") => todo'[p] = clients
              /\ pc[p] = "send" =>
                     /\ todo'[p] \subseteq todo[p]
                     /\ todo[p] \subseteq clients
                     /\ \A ch \in Chans :
                            Cardinality({i \in 1..Len(hist'[ch]) :
                                            hist'[ch][i].msg = cur[p]})
                                = IF ch \in clients \ todo'[p] THEN 1 ELSE 0]_vars

\* a pass has visited one of two registered channels while the handler of
\* one of them waits to unregister
C18_Witness ==
    \E p \in Prod, c \in Conns :
        /\ pc[p] = "send"
        /\ clients = Conns
        /\ Cardinality(todo[p]) = 1
        /\ pc[c] = "rem_reg"

\* the next step of t writes the map clients / reads it (len(clients) in
\* the log lines of addClient and removeClient, the range loop of broadcast)
C19_Writes(t) == pc[t] \in {"add_ins", "rem_del"}
C19_Reads(t) == pc[t] \in {"add_log", "rem_log"} \/ (t \in Prod /\ pc[t] = "send")

\* C19: every write of the registry is made by the thread that holds
\* clientsMu for writing, every read by a thread that holds clientsMu, and
\* no thread reads the registry or its size while another is about to
\* write it.
C19_RegistryUnderLock ==
    /\ \A t \in Threads : C19_Writes(t) => clientsMu.w = t
    /\ \A t \in Threads : C19_Reads(t) => t \in Holders(clientsMu)
    /\ \A t1, t2 \in Threads :
           t1 # t2 => ~(C19_Reads(t1) /\ C19_Writes(t2))

\* C20: each trade tick adds one to totalTrades and its trade's total to
\* totalVolume while it holds statsMu for writing, so that outside that
\* critical section the counters are the number and the sum of the trades
\* made; it then calls broadcast once with that trade.  After n completed
\* trade ticks totalTrades = n and n trade events have been published.
C20_TradeTick ==
    /\ pc["trade"] \in {"tr_inc", "tr_vol"} => statsMu.w = "trade"
    /\ statsMu.w # "trade" =>
           /\ totalTrades = Len(tradeLog)
           /\ totalVolume = SumFirst(tradeLog, Len(tradeLog))
    /\ totalTrades = ticks["trade"]
                       - (IF pc["trade"] \in {"tr_stats", "tr_inc"} THEN 1 ELSE 0)
    /\ bcasts["trade"] = ticks["trade"]
                       - (IF pc["trade"] \in {"tr_stats", "tr_inc", "tr_vol", "rlock"}
                            THEN 1 ELSE 0)
    /\ pc["trade"] = "idle" =>
           totalTrades = ticks["trade"] /\ bcasts["trade"] = ticks["trade"]
    /\ \A m \in EventsOf("trade") :
           m.n <= Len(tradeLog) /\ m.data = <<tradeLog[m.n]>>

\* two trade ticks are complete and the second trade is on the stream
C20_Witness ==
    /\ pc["trade"] = "idle"
    /\ ticks["trade"] = 2
    /\ \E i \in 1..Len(stream["c1"]) :
           stream["c1"][i].kind = "trade" /\ stream["c1"][i].n = 2

\* C13: no snapshot shows a partially applied price tick: in every init
\* and every prices event all symbols have had the same number of updates.
C13_SnapshotOfOneTick ==
    \A m \in EventsOf("init") \cup EventsOf("prices") :
        \A s1, s2 \in DOMAIN m.data : m.data[s1].n = m.data[s2].n

\* C15: every tick handler, and with it every broadcast call, comes to its
\* end: a producer that has left its ticker wait is back there later,
\* whatever the channels hold and also when the registry is empty; no
\* producer panics; a broadcast that finds the registry empty returns and
\* changes nothing; and the tickers go on firing until the run's
\* MaxPublish ticks are used up.
C15_ProducersTerminate ==
    /\ \A p \in Prod : (pc[p] # "idle") ~> (pc[p] = "idle")
    /\ [](\A p \in Prod : pc[p] # "panic")
    /\ [][\A p \in Prod :
             (pc[p] = "rlock" /\ pc'[p] # "rlock" /\ clients = {}) =>
                 /\ pc'[p] = "idle"
                 /\ <<hubVars, statVars, connVars, hist>>' =
                        <<hubVars, statVars, connVars, hist>>]_vars
    /\ <>(Published = MaxPublish)

\* all ticks are done; one found the channel full, an earlier one found it
\* with room
C15_Witness ==
    /\ Published = MaxPublish
    /\ \A p \in Prod : pc[p] = "idle"
    /\ \E i \in 1..Len(hist["c1"]) : ~hist["c1"][i].ok

\* C16: once the context of a connection is done, its handler leaves its
\* loop, removeClient is called for its channel and returns, and from the
\* delete on the channel is not in the registry.
C16_DisconnectUnregisters ==
    /\ \A c \in Conns : ctxDone[c] ~> (unregCalls[c] = 1 /\ unregDone[c] = 1)
    /\ \A c \in Conns : [](unregDone[c] > 0 => c \notin clients)
    /\ \A c \in Conns : [](pc[c] \in {"rem_close", "rem_stats", "rem_dec", "rem_log"}
                              => c \notin clients)

\* the handler has returned although its channel still held a message when
\* it left its loop
C16_Witness ==
    \E c \in Conns :
        /\ pc[c] = "done"
        /\ chq[c] # <<>>
        /\ c \notin clients

\* C22: a subscriber never sees the market state go backwards: every
\* prices event on a stream shows, for every symbol, at least as many
\* updates as the snapshot of the init event of that stream.
C22_NoStepBack ==
    \A c \in Conns : \A i \in 2..Len(stream[c]) :
        stream[c][i].kind = "prices" =>
            \A s \in Symbols : stream[c][i].data[s].n >= stream[c][1].data[s].n

\* C27: the activeTraders value a stats tick reads for its event is the
\* number of channels in the registry at that moment.
C27_ActiveIsRegistrySize ==
    [][\A p \in Prod :
           (pc[p] = "st_vol" /\ pc'[p] = "rlock") =>
               cur'[p].data[3] = Cardinality(clients)]_vars

C29_WrittenOnce ==
    /\ \A c \in Conns : \A i, j \in 1..Len(stream[c]) :
           i # j => <<stream[c][i].kind, stream[c][i].n>>
                        # <<stream[c][j].kind, stream[c][j].n>>
    /\ \A c \in Conns : chclosed[c] => pc[c] \notin {"init", "loop"}
    /\ \A c \in Conns : chclosed[c] /\ hist[c] # <<>> =>
           Written(c) \o chq[c] = Enqueued(c)

\* a channel was closed with a message left in it, after its handler had
\* written two messages of one kind
C29_Witness ==
    \E c \in Conns :
        /\ chclosed[c]
        /\ chq[c] # <<>>
        /\ \E i, j \in 2..Len(stream[c]) :
               i # j /\ stream[c][i].kind = stream[c][j].kind

\* C30: on every stream the stats events carry non-decreasing totalTrades
\* and totalVolume, in stream order.
C30_StatsMonotone ==
    \A c \in Conns : \A i, j \in 1..Len(stream[c]) :
        (i < j /\ stream[c][i].kind = "stats" /\ stream[c][j].kind = "stats") =>
            /\ stream[c][i].data[1] <= stream[c][j].data[1]
            /\ stream[c][i].data[2] <= stream[c][j].data[2]

\* two stats events on a stream, with a trade counted between their reads
C30_Witness ==
    \E c \in Conns : \E i, j \in 1..Len(stream[c]) :
        /\ i < j
        /\ stream[c][i].kind = "stats" /\ stream[c][j].kind = "stats"
        /\ stream[c][i].data[1] < stream[c][j].data[1]
        /\ stream[c][i].data[2] < stream[c][j].data[2]

\* updatePrices is not inside its loop over the symbols
TickComplete == pc["price"] \in {"idle", "list", "rlock", "send"}

\* C24: after every completed price tick every symbol has
\* Low24h <= Price <= High24h; no step lowers High24h, raises Low24h or
\* lowers Volume.
C24_HighLowVolume ==
    /\ [](TickComplete =>
             \A s \in Symbols :
                 /\ cryptos[s].Low24h <= cryptos[s].Price
                 /\ cryptos[s].Price <= cryptos[s].High24h)
    /\ [][\A s \in Symbols :
              /\ cryptos'[s].High24h >= cryptos[s].High24h
              /\ cryptos'[s].Low24h <= cryptos[s].Low24h
              /\ cryptos'[s].Volume >= cryptos[s].Volume]_vars

\* after a completed tick a price is below the seed's low, and the low and
\* the volume have followed
C24_Witness ==
    /\ TickComplete
    /\ \E s \in Symbols :
           /\ cryptos[s].n >= 1
           /\ cryptos[s].Price < Seed[s].Low24h
           /\ cryptos[s].Low24h = cryptos[s].Price
           /\ cryptos[s].Volume > Seed[s].Volume

\* C25: after any price tick the Change24h of every symbol is within
\* [-20, 20] percent, whatever it was before and whatever delta was drawn.
C25_ChangeClamped ==
    \A s \in Symbols :
        (TickComplete \/ pc["price"] # "upd_clamp" \/ symbols[upd] # s) =>
            /\ cryptos[s].Change24h >= -ChangeLimit
            /\ cryptos[s].Change24h <= ChangeLimit

\* a Change24h that was near the limit was pushed over it and clamped
C25_Witness ==
    /\ TickComplete
    /\ \E s \in Symbols :
           /\ cryptos[s].n = 1
           /\ cryptos[s].Change24h = ChangeLimit

\* C26: a price tick changes a price by at most 2 percent of its value, and
\* no price is ever zero or negative.
C26_PricePositive ==
    /\ [](\A s \in Symbols : cryptos[s].Price > 0)
    /\ [][\A s \in Symbols :
              /\ 100 * (cryptos'[s].Price - cryptos[s].Price)
                     <= MaxPercent * cryptos[s].Price
              /\ 100 * (cryptos[s].Price - cryptos'[s].Price)
                     <= MaxPercent * cryptos[s].Price]_vars

\* three ticks have taken a price down by more than 5 percent
C26_Witness ==
    \E s \in Symbols :
        /\ cryptos[s].n >= 3
        /\ 100 * cryptos[s].Price < 95 * Seed[s].Price

\* C21: in every trade event Total is Price times Amount, in cents, for
\* the Price and the Amount the event carries.
C21_TotalIsPriceTimesAmount ==
    \A m \in EventsOf("trade") :
        m.data.Total = RoundDiv(m.data.Price * m.data.Amount, 100)

\* C23: in every entry of every snapshot of an init or a prices event
\* Low24h <= Price <= High24h.
C23_SnapshotWithinHighLow ==
    \A m \in EventsOf("init") \cup EventsOf("prices") :
        \A s \in DOMAIN m.data :
            /\ m.data[s].Low24h <= m.data[s].Price
            /\ m.data[s].Price <= m.data[s].High24h

\* C31: an event whose serialization fails is never written to a stream;
\* the handler step that meets it, in the loop or at the init event, stays
\* in (or enters) the loop with the item taken off its own queue, and
\* leaves the registry, the other channels and streams, the counters, the
\* market and the producers as they were.
C31_Skipped(c) ==
    /\ stream'[c] = stream[c]
    /\ pc'[c] = "loop"
    /\ clients' = clients /\ clientsMu' = clientsMu /\ chclosed' = chclosed
    /\ \A d \in Conns \ {c} : chq'[d] = chq[d] /\ stream'[d] = stream[d] /\ pc'[d] = pc[d]
    /\ \A p \in Prod : pc'[p] = pc[p]
    /\ UNCHANGED <<statVars, prodVars, cryptos>>

C31_RecvFails(c) ==
    /\ pc[c] = "loop" /\ chq[c] # <<>> /\ chq'[c] = Tail(chq[c])
    /\ MarshalErr(Head(chq[c]))

C31_InitFails(c) ==
    /\ pc[c] = "init" /\ pc'[c] # "init"
    /\ MarshalErr([InitialData EXCEPT !.data = list[c]])

C31_MarshalFailureSkips ==
    /\ [](\A c \in Conns : \A i \in 1..Len(stream[c]) : ~MarshalErr(stream[c][i]))
    /\ [][\A c \in Conns :
            /\ C31_RecvFails(c) => C31_Skipped(c) /\ chq'[c] = Tail(chq[c])
            /\ C31_InitFails(c) => C31_Skipped(c) /\ chq'[c] = chq[c]]_vars

\* c1 took a prices event that does not serialize off its queue, wrote
\* nothing for it and wrote the alert that came after it, while c2 is
\* registered with the same prices event still in its queue
C31_Witness ==
    /\ \E i, j \in 1..Len(hist["c1"]) :
          /\ i < j
          /\ hist["c1"][i].ok /\ MarshalErr(hist["c1"][i].msg)
          /\ hist["c1"][j].ok
          /\ stream["c1"] = <<hist["c1"][j].msg>>
          /\ chq["c2"] # <<>> /\ Head(chq["c2"]) = hist["c1"][i].msg
    /\ chq["c1"] = <<>>
    /\ pc["c1"] = "loop"
    /\ "c2" \in clients

\* C32: a step of the alert tick or of the stats tick leaves the market
\* state, the three counters and the registry as they are; all it changes
\* outside the ticker is the queue of a registered channel, by appending
\* the event of the tick, and each tick offers its event to a channel once.
C32_TickStep(p) == pc'[p] # pc[p] \/ todo'[p] # todo[p]

C32_OnlyEnqueues(p) ==
    /\ UNCHANGED <<cryptos, totalTrades, totalVolume, activeTraders>>
    /\ UNCHANGED <<clients, chclosed, stream>>
    /\ \A t \in Threads \ {p} : pc'[t] = pc[t]
    /\ \A ch \in Chans :
          \/ chq'[ch] = chq[ch]
          \/ ch \in clients /\ cur[p].kind = p /\ chq'[ch] = Append(chq[ch], cur[p])

C32_AlertAndStatsOnlyEnqueue ==
    /\ [](\A ch \in Chans : \A i, j \in 1..Len(hist[ch]) :
            (i # j /\ hist[ch][i].msg.kind \in {"alert", "stats"}
                   /\ hist[ch][i].msg.kind = hist[ch][j].msg.kind)
               => hist[ch][i].msg.n # hist[ch][j].msg.n)
    /\ [][\A p \in {"alert", "stats"} : C32_TickStep(p) => C32_OnlyEnqueues(p)]_vars

\* an alert event and a stats event have been enqueued for c1 while the
\* counters show a trade and a connection
C32_Witness ==
    /\ \E i, j \in 1..Len(hist["c1"]) :
          /\ hist["c1"][i].ok /\ hist["c1"][i].msg.kind = "alert"
          /\ hist["c1"][j].ok /\ hist["c1"][j].msg.kind = "stats"
    /\ totalTrades > 0 /\ activeTraders > 0
    /\ clients = {"c1"}
    /\ pc["alert"] = "idle" /\ pc["stats"] = "idle"

====
